---- MODULE Spec2Model ----
(***************************************************************************)
(* Model of the QOI codec of src/src/qoi.rs: Qoi::encode (header, pixel    *)
(* loop, end marker) and Qoi::decode (header parse, the pixel iterator).   *)
(* Bytes and channels are 0..255, pixels are 4-tuples <<r, g, b, a>>, the  *)
(* caches are functions 0..63 -> pixel.                                    *)
(***************************************************************************)
EXTENDS Integers, Sequences, FiniteSets, TLC

(***************************************************************************)
(* Bounds of the model.                                                    *)
(***************************************************************************)
MaxWidth == 2
MaxLen == 3
RunWidth == 8
RunHeight == 8
RunMin == 61
RunMax == 64
MaxBody == 2
MaxNone == 2

(***************************************************************************)
(* Program constants.                                                      *)
(***************************************************************************)
MAGIC == 1903126886
OP_RGB == 254
OP_RGBA == 255
OP_INDEX == 0
OP_DIFF == 64
OP_LUMA == 128
OP_RUN == 192
MASK == 192
RUN_LIMIT == 62
CACHE_SIZE == 64

(***************************************************************************)
(* Machine arithmetic.                                                     *)
(***************************************************************************)
RECURSIVE BitAnd(_, _)
BitAnd(a, b) ==
    IF a = 0 \/ b = 0 THEN 0
    ELSE (IF a % 2 = 1 /\ b % 2 = 1 THEN 1 ELSE 0) + 2 * BitAnd(a \div 2, b \div 2)

RECURSIVE BitOr(_, _)
BitOr(a, b) ==
    IF a = 0 THEN b
    ELSE IF b = 0 THEN a
    ELSE (IF a % 2 = 1 \/ b % 2 = 1 THEN 1 ELSE 0) + 2 * BitOr(a \div 2, b \div 2)

\* u8 << n and u8 >> n
Shl8(x, n) == (x * (2 ^ n)) % 256
Shr8(x, n) == x \div (2 ^ n)

\* `u as i8` and `i as u8`
AsI8(u) == IF u >= 128 THEN u - 256 ELSE u
AsU8(i) == i % 256

\* the i8 range, and the value an out-of-range i8 result wraps to
InI8(x) == x >= -128 /\ x <= 127
WrapI8(x) == AsI8(x % 256)

\* u8::wrapping_add_signed
wrapping_add_signed(u, d) == (u + d) % 256

\* u32::to_be_bytes / u32::from_be_bytes
to_be_bytes(x) ==
    << (x \div 16777216) % 256, (x \div 65536) % 256, (x \div 256) % 256, x % 256 >>
from_be_bytes(b) == b[1] * 16777216 + b[2] * 65536 + b[3] * 256 + b[4]

\* u32 * u32 on little-endian byte limbs: the low 32 bits of the product, and
\* whether the product needs more than 32 bits
MulU32(a, b) ==
    LET x == [i \in 0 .. 3 |-> (a \div (256 ^ i)) % 256]
        y == [i \in 0 .. 3 |-> (b \div (256 ^ i)) % 256]
        c0 == x[0] * y[0]
        c1 == x[0] * y[1] + x[1] * y[0] + (c0 \div 256)
        c2 == x[0] * y[2] + x[1] * y[1] + x[2] * y[0] + (c1 \div 256)
        c3 == x[0] * y[3] + x[1] * y[2] + x[2] * y[1] + x[3] * y[0] + (c2 \div 256)
        c4 == x[1] * y[3] + x[2] * y[2] + x[3] * y[1] + (c3 \div 256)
        c5 == x[2] * y[3] + x[3] * y[2] + (c4 \div 256)
        c6 == x[3] * y[3] + (c5 \div 256)
    IN  [ value |-> (c0 % 256) + (c1 % 256) * 256 + (c2 % 256) * 65536
                      + (c3 % 256) * 16777216,
          overflow |-> (c4 % 256) # 0 \/ (c5 % 256) # 0 \/ c6 # 0 ]

Contains(lo, hi, x) == lo <= x /\ x <= hi

hashSwapped(px) == px[1] * 11 + px[2] * 7 + px[3] * 5 + px[4] * 3
hash(px) == px[1] * 3 + px[2] * 5 + px[3] * 7 + px[4] * 11

Slot(px) == BitAnd(hash(px), CACHE_SIZE - 1)

PxInit == << 0, 0, 0, 255 >>
ArrayInit == [i \in 0 .. (CACHE_SIZE - 1) |-> << 0, 0, 0, 0 >>]

ChannelsTag(c) == IF c = "RGB" THEN 3 ELSE 4
ColorspaceTag(c) == IF c = "SRGB" THEN 0 ELSE 1

(***************************************************************************)
(* State.                                                                  *)
(***************************************************************************)
VARIABLES
    pc,              \* position of the caller: encode, loop, decode, pull, idle, panic
    overflow_checks, \* build profile: TRUE panics on integer overflow, FALSE wraps
    header,          \* the header handed to encode
    src,             \* the pixel iterator handed to encode
    taken,           \* pixels the encode loop has consumed
    px_prev,         \* encode: previous pixel
    enc_array,       \* encode: the 64-slot cache
    enc_run,         \* encode: pending run
    out,             \* encode: bytes written to the sink
    enc_ops,         \* encode: branch taken for each consumed pixel
    data,            \* decode: the byte source
    pos,             \* decode: bytes consumed from data
    result,          \* decode: "none" before the call, then "Some" | "None" | "panic"
    dec_header,      \* decode: the header returned with Some
    px,              \* iterator: current pixel
    dec_array,       \* iterator: the 64-slot cache
    total,           \* iterator: remaining pixels
    dec_run,         \* iterator: pending run
    emitted,         \* pixels the iterator has yielded
    ret,             \* last pull: "Some", "None" (budget spent) or "Failed" (None after a short read)
    nones            \* pulls that ended the sequence so far

enc_vars == << header, src, taken, px_prev, enc_array, enc_run, out, enc_ops >>
dec_vars == << data, pos, result, dec_header, px, dec_array, total, dec_run,
               emitted, ret, nones >>
vars == << pc, overflow_checks, enc_vars, dec_vars >>

NoHeader == [width |-> 0, height |-> 0, channels |-> "RGB", colorspace |-> "SRGB"]

(***************************************************************************)
(* Qoi::encode.                                                            *)
(***************************************************************************)
write_32(o, input) == o \o to_be_bytes(input)
write_8(o, input) == o \o << input >>

\* lines 185-204: the 14 header bytes
HeaderBytes(h) ==
    write_8(write_8(write_32(write_32(write_32(<< >>, MAGIC), h.width), h.height),
                    ChannelsTag(h.channels)),
            ColorspaceTag(h.colorspace))

\* line 211: data.take(width as usize * height as usize). The 64-bit product
\* is kept while it fits 32 bits; a larger one is past the end of every source
\* of the model and stands as the largest number the checker holds.
TakeCount(h) ==
    IF MulU32(h.width, h.height).overflow THEN 2147483647 ELSE h.width * h.height

\* line 215: the run is written out when it reaches 62
RunFullLate(run) == run = RUN_LIMIT + 1
RunFull(run) == run = RUN_LIMIT

\* lines 216 and 221: the run opcode
RunByteNoBias(run) == BitOr(OP_RUN, run)
RunByte(run) == BitOr(OP_RUN, run - 1)

\* lines 237-242: the five i8 subtractions, as mathematical integers and as
\* the values the wrapping build computes
Deltas(p, prev) ==
    LET r0 == AsI8(p[1]) - AsI8(prev[1])
        g0 == AsI8(p[2]) - AsI8(prev[2])
        b0 == AsI8(p[3]) - AsI8(prev[3])
        r == WrapI8(r0)
        g == WrapI8(g0)
        b == WrapI8(b0)
        rv0 == r - g
        bv0 == b - g
    IN  [ r_diff |-> r, g_diff |-> g, b_diff |-> b,
          r_diff_vg |-> WrapI8(rv0), b_diff_vg |-> WrapI8(bv0),
          overflow |-> ~(InI8(r0) /\ InI8(g0) /\ InI8(b0) /\ InI8(rv0) /\ InI8(bv0)) ]

\* line 228: the branch that writes the full RGBA opcode
TakesRgba(p, prev) == p[4] = prev[4]

\* lines 244-264: the opcode of the last branch
DeltaOp(d) ==
    IF Contains(-2, 1, d.r_diff) /\ Contains(-2, 1, d.g_diff) /\ Contains(-2, 1, d.b_diff)
    THEN "diff"
    ELSE IF Contains(-8, 7, d.r_diff_vg) /\ Contains(-32, 31, d.g_diff)
            /\ Contains(-8, 7, d.b_diff_vg)
    THEN "luma"
    ELSE "rgb"

DeltaBytes(p, d) ==
    CASE DeltaOp(d) = "diff" ->
            << BitOr(BitOr(BitOr(OP_DIFF, Shl8(AsU8(d.r_diff + 2), 4)),
                           Shl8(AsU8(d.g_diff + 2), 2)),
                     AsU8(d.b_diff + 2)) >>
      [] DeltaOp(d) = "luma" ->
            << BitOr(OP_LUMA, AsU8(d.g_diff + 32)),
               BitOr(Shl8(AsU8(d.r_diff_vg + 8), 4), AsU8(d.b_diff_vg + 8)) >>
      [] OTHER -> << OP_RGB, p[1], p[2], p[3] >>

\* lines 213-268: one iteration of the pixel loop on pixel p
EncodeStep(p, prev, array, run, checks) ==
    IF p = prev
    THEN IF RunFull(run + 1)
         THEN [ bytes |-> << RunByte(run + 1) >>, array |-> array, run |-> 0,
                op |-> "run", panic |-> FALSE ]
         ELSE [ bytes |-> << >>, array |-> array, run |-> run + 1,
                op |-> "run", panic |-> FALSE ]
    ELSE LET flush == IF run > 0 THEN << RunByte(run) >> ELSE << >>
             index == Slot(p)
             d == Deltas(p, prev)
         IN  IF array[index] = p
             THEN [ bytes |-> flush \o << BitOr(OP_INDEX, index) >>, array |-> array,
                    run |-> 0, op |-> "index", panic |-> FALSE ]
             ELSE IF TakesRgba(p, prev)
             THEN [ bytes |-> flush \o << OP_RGBA, p[1], p[2], p[3], p[4] >>,
                    array |-> [array EXCEPT ![index] = p],
                    run |-> 0, op |-> "rgba", panic |-> FALSE ]
             ELSE IF d.overflow /\ checks
             THEN [ bytes |-> flush, array |-> array, run |-> 0,
                    op |-> "panic", panic |-> TRUE ]
             ELSE [ bytes |-> flush \o DeltaBytes(p, d), array |-> array,
                    run |-> 0, op |-> DeltaOp(d), panic |-> FALSE ]

\* lines 271-272: the end marker
EndMarker == write_32(write_32(<< >>, 0), 1)

EncodeHeader ==
    /\ pc = "encode"
    /\ out' = HeaderBytes(header)
    /\ pc' = "loop"
    /\ UNCHANGED << overflow_checks, header, src, taken, px_prev, enc_array, enc_run,
                    enc_ops, dec_vars >>

EncodePixel ==
    /\ pc = "loop"
    /\ taken < TakeCount(header)
    /\ taken < Len(src)
    /\ LET p == src[taken + 1]
           s == EncodeStep(p, px_prev, enc_array, enc_run, overflow_checks)
       IN  /\ out' = out \o s.bytes
           /\ enc_array' = s.array
           /\ enc_run' = s.run
           /\ enc_ops' = Append(enc_ops, s.op)
           /\ taken' = taken + 1
           /\ px_prev' = IF s.panic THEN px_prev ELSE p
           /\ pc' = IF s.panic THEN "panic" ELSE "loop"
    /\ UNCHANGED << overflow_checks, header, src, dec_vars >>

\* the loop has ended; the end marker is written and the caller hands the
\* bytes to decode (test::encode, lines 321-327)
EncodeFinish ==
    /\ pc = "loop"
    /\ ~(taken < TakeCount(header) /\ taken < Len(src))
    /\ out' = out \o EndMarker
    /\ data' = out'
    /\ pc' = "decode"
    /\ UNCHANGED << overflow_checks, header, src, taken, px_prev, enc_array, enc_run,
                    enc_ops, pos, result, dec_header, px, dec_array, total, dec_run,
                    emitted, ret, nones >>

(***************************************************************************)
(* Qoi::decode: the header.                                                *)
(***************************************************************************)
\* read_exact of n bytes at offset at: succeeds when n bytes are left
CanRead(d, at, n) == at + n <= Len(d)

\* where a read_exact that came up short leaves the source: at its end
AfterShortReadRewind(d) == 0
AfterShortRead(d) == Len(d)

\* lines 53-57
read_32(d, at) == from_be_bytes(SubSeq(d, at + 1, at + 4))

\* lines 60-64
read_8(d, at) == d[at + 1]

\* lines 68-104 and 170: the result of the call on the bytes d. A failed
\* read_exact leaves the source at its end.
DecodeCall(d, checks) ==
    LET fail(at) == [ result |-> "None", pos |-> at, header |-> NoHeader, total |-> 0 ]
    IN  IF ~CanRead(d, 0, 4) THEN fail(AfterShortRead(d))
        ELSE IF read_32(d, 0) # MAGIC THEN fail(4)
        ELSE IF ~CanRead(d, 4, 4) THEN fail(AfterShortRead(d))
        ELSE IF ~CanRead(d, 8, 4) THEN fail(AfterShortRead(d))
        ELSE LET width == read_32(d, 4)
                 height == read_32(d, 8)
             IN  IF width = 0 \/ height = 0 THEN fail(12)
                 ELSE IF ~CanRead(d, 12, 1) THEN fail(AfterShortRead(d))
                 ELSE IF ~CanRead(d, 13, 1) THEN fail(AfterShortRead(d))
                 ELSE LET channels == read_8(d, 12)
                          colorspace == read_8(d, 13)
                      IN  IF channels # 3 /\ channels # 4 THEN fail(14)
                          ELSE IF colorspace # 0 /\ colorspace # 1 THEN fail(14)
                          ELSE IF MulU32(width, height).overflow /\ checks
                          THEN [ result |-> "panic", pos |-> 14, header |-> NoHeader,
                                 total |-> 0 ]
                          ELSE [ result |-> "Some", pos |-> 14,
                                 header |->
                                   [ width |-> width, height |-> height,
                                     channels |-> IF channels = 3 THEN "RGB" ELSE "RGBA",
                                     colorspace |->
                                       IF colorspace = 0 THEN "SRGB" ELSE "Linear" ],
                                 total |-> MulU32(width, height).value ]

Decode ==
    /\ pc = "decode"
    /\ LET r == DecodeCall(data, overflow_checks)
       IN  /\ result' = r.result
           /\ pos' = r.pos
           /\ dec_header' = r.header
           /\ total' = r.total
           /\ pc' = CASE r.result = "Some" -> "pull"
                      [] r.result = "None" -> "idle"
                      [] OTHER -> "panic"
    /\ px' = PxInit
    /\ dec_array' = ArrayInit
    /\ dec_run' = 0
    /\ UNCHANGED << overflow_checks, enc_vars, data, emitted, ret, nones >>

(***************************************************************************)
(* Qoi::decode: the iterator (lines 106-168).                              *)
(***************************************************************************)
\* line 119-162: the match arm a first byte selects
DispatchMaskFirst(b0) ==
    IF BitAnd(b0, MASK) = OP_INDEX THEN "index"
    ELSE IF BitAnd(b0, MASK) = OP_DIFF THEN "diff"
    ELSE IF BitAnd(b0, MASK) = OP_LUMA THEN "luma"
    ELSE IF BitAnd(b0, MASK) = OP_RUN THEN "run"
    ELSE IF b0 = OP_RGB THEN "rgb"
    ELSE IF b0 = OP_RGBA THEN "rgba"
    ELSE "malformed"

Dispatch(b0) ==
    IF b0 = OP_RGB THEN "rgb"
    ELSE IF b0 = OP_RGBA THEN "rgba"
    ELSE IF BitAnd(b0, MASK) = OP_INDEX THEN "index"
    ELSE IF BitAnd(b0, MASK) = OP_DIFF THEN "diff"
    ELSE IF BitAnd(b0, MASK) = OP_LUMA THEN "luma"
    ELSE IF BitAnd(b0, MASK) = OP_RUN THEN "run"
    ELSE "malformed"

\* payload bytes read after the first byte of an opcode
Payload(op) ==
    CASE op = "rgb" -> 3
      [] op = "rgba" -> 4
      [] op = "luma" -> 1
      [] OTHER -> 0

\* lines 135-141
DiffPixel(p, c) ==
    LET r_diff == AsI8(BitAnd(Shr8(c, 4), 3)) - 2
        g_diff == AsI8(BitAnd(Shr8(c, 2), 3)) - 2
        b_diff == AsI8(BitAnd(c, 3)) - 2
    IN  << wrapping_add_signed(p[1], r_diff), wrapping_add_signed(p[2], g_diff),
           wrapping_add_signed(p[3], b_diff), p[4] >>

\* lines 144-156
LumaPixel(p, b0, b1) ==
    LET g_diff == AsI8(BitAnd(b0, 63)) - 32
        dr_dg == BitAnd(Shr8(b1, 4), 15)
        db_dg == BitAnd(b1, 15)
        r_diff == (AsI8(dr_dg) + g_diff) - 8
        b_diff == (AsI8(db_dg) + g_diff) - 8
    IN  << wrapping_add_signed(p[1], r_diff), wrapping_add_signed(p[2], g_diff),
           wrapping_add_signed(p[3], b_diff), p[4] >>

\* the channels an rgb / rgba opcode has assigned when n payload bytes could be
\* read: each channel is stored as soon as its byte is read (lines 121-129)
Assigned(p, d, at, n) ==
    << IF 1 <= n THEN read_8(d, at + 1) ELSE p[1],
       IF 2 <= n THEN read_8(d, at + 2) ELSE p[2],
       IF 3 <= n THEN read_8(d, at + 3) ELSE p[3],
       IF 4 <= n THEN read_8(d, at + 4) ELSE p[4] >>

\* line 159: the repeats a run opcode queues
RunLengthBiased(b0) == BitAnd(b0, 63) + 1
RunLength(b0) == BitAnd(b0, 63)

\* the cache after the pixel p has been resolved (line 164)
CacheWrite(array, p) == [array EXCEPT ![Slot(p)] = p]

\* one call of the closure on the state s = [px, array, total, run, pos]
Pull(d, s) ==
    IF s.total = 0
    THEN [ ret |-> "None", failed |-> FALSE, state |-> s ]
    ELSE IF s.run > 0
    THEN [ ret |-> "Some", failed |-> FALSE,
           state |-> [s EXCEPT !.run = @ - 1, !.total = @ - 1] ]
    ELSE IF ~CanRead(d, s.pos, 1)
    THEN [ ret |-> "None", failed |-> TRUE, state |-> [s EXCEPT !.pos = AfterShortRead(d)] ]
    ELSE
    LET b0 == read_8(d, s.pos)
        op == Dispatch(b0)
        at == s.pos + 1
        got == IF Len(d) - at < Payload(op) THEN Len(d) - at ELSE Payload(op)
        p == CASE op = "rgb" -> Assigned(s.px, d, at - 1, got)
               [] op = "rgba" -> Assigned(s.px, d, at - 1, got)
               [] op = "index" -> s.array[BitAnd(b0, 63)]
               [] op = "diff" -> DiffPixel(s.px, b0)
               [] op = "luma" -> IF got = 1 THEN LumaPixel(s.px, b0, read_8(d, at))
                                 ELSE s.px
               [] OTHER -> s.px
    IN  IF got < Payload(op) \/ op = "malformed"
        THEN [ ret |-> "None", failed |-> TRUE,
               state |-> [s EXCEPT !.px = p, !.pos = AfterShortRead(d)] ]
        ELSE [ ret |-> "Some", failed |-> FALSE,
               state |-> [ px |-> p,
                           array |-> CacheWrite(s.array, p),
                           total |-> s.total - 1,
                           run |-> IF op = "run" THEN RunLength(b0) ELSE s.run,
                           pos |-> at + got ] ]

Next_px ==
    /\ pc = "pull"
    /\ nones < MaxNone
    /\ LET r == Pull(data, [ px |-> px, array |-> dec_array, total |-> total,
                             run |-> dec_run, pos |-> pos ])
       IN  /\ px' = r.state.px
           /\ dec_array' = r.state.array
           /\ total' = r.state.total
           /\ dec_run' = r.state.run
           /\ pos' = r.state.pos
           /\ ret' = IF r.failed THEN "Failed" ELSE r.ret
           /\ emitted' = IF r.ret = "Some" THEN Append(emitted, r.state.px) ELSE emitted
           /\ nones' = IF r.ret = "None" THEN nones + 1 ELSE nones
    /\ UNCHANGED << pc, overflow_checks, enc_vars, data, result, dec_header >>

(***************************************************************************)
(* Inputs.                                                                 *)
(***************************************************************************)
SeqsUpTo(S, n) == UNION { [1 .. k -> S] : k \in 0 .. n }

Repeat(p, n) == [i \in 1 .. n |-> p]

Prefixes(S) == UNION { { SubSeq(q, 1, k) : k \in 0 .. Len(q) } : q \in S }

Hdr(w, h, c, s) == [width |-> w, height |-> h, channels |-> c, colorspace |-> s]

\* pixels that meet every branch of the loop: the initial previous pixel, the
\* initial cache entry, small and luma deltas with and without an alpha change,
\* a hash collision with the initial pixel, deltas that leave the i8 range
Palette ==
    { << 0, 0, 0, 255 >>, << 0, 0, 0, 0 >>, << 1, 1, 1, 255 >>, << 1, 1, 1, 254 >>,
      << 10, 10, 10, 255 >>, << 64, 0, 0, 255 >>, << 133, 4, 5, 0 >> }

RunPalette == { << 0, 0, 0, 255 >>, << 1, 1, 1, 255 >> }

\* short images over the palette, shorter and longer than the header declares
PixelInputs ==
    { << Hdr(w, h, "RGBA", "SRGB"), q >> :
        w \in 1 .. MaxWidth, h \in {1, 2}, q \in SeqsUpTo(Palette, MaxLen) }

\* every tag combination, with at most one pixel
TagInputs ==
    { << Hdr(w, 1, c, s), q >> :
        w \in {1, 256}, c \in {"RGB", "RGBA"}, s \in {"SRGB", "Linear"},
        q \in SeqsUpTo({ << 1, 1, 1, 255 >> }, 1) }

\* long runs: at most one pixel, then n equal pixels, then at most one pixel
RunInputs ==
    { << Hdr(RunWidth, RunHeight, "RGB", "Linear"), a \o Repeat(p, n) \o b >> :
        a \in SeqsUpTo(RunPalette, 1), p \in RunPalette, n \in RunMin .. RunMax,
        b \in SeqsUpTo(RunPalette, 1) }

\* the image of test::encode
TestInputs ==
    { << Hdr(3, 2, "RGB", "Linear"),
         << << 255, 255, 255, 255 >>, << 255, 255, 255, 255 >>, << 0, 255, 255, 255 >>,
            << 255, 0, 255, 255 >>, << 255, 255, 0, 255 >>, << 255, 255, 255, 255 >> >> >> }

\* a header whose pixel count does not fit 32 bits, with at most one pixel
BigInputs ==
    { << Hdr(65536, 65536, "RGBA", "SRGB"), q >> : q \in SeqsUpTo({ << 1, 1, 1, 255 >> }, 1) }

EncInputs == PixelInputs \cup TagInputs \cup RunInputs \cup TestInputs \cup BigInputs

Init ==
    /\ pc = "encode"
    /\ overflow_checks \in BOOLEAN
    /\ \E i \in EncInputs : header = i[1] /\ src = i[2]
    /\ taken = 0
    /\ px_prev = PxInit
    /\ enc_array = ArrayInit
    /\ enc_run = 0
    /\ out = << >>
    /\ enc_ops = << >>
    /\ data = << >>
    /\ pos = 0
    /\ result = "none"
    /\ dec_header = NoHeader
    /\ px = PxInit
    /\ dec_array = ArrayInit
    /\ total = 0
    /\ dec_run = 0
    /\ emitted = << >>
    /\ ret = "none"
    /\ nones = 0

Next == EncodeHeader \/ EncodePixel \/ EncodeFinish \/ Decode \/ Next_px

Spec == Init /\ [][Next]_vars

(***************************************************************************)
(* decode on byte streams that no encoder wrote.                           *)
(***************************************************************************)
RECURSIVE Flatten(_)
Flatten(q) == IF q = << >> THEN << >> ELSE Head(q) \o Flatten(Tail(q))

\* the 14 bytes of a header given by its raw fields
RawHeader(magic, w, h, c, s) == to_be_bytes(magic) \o to_be_bytes(w) \o to_be_bytes(h) \o << c, s >>

\* whole opcodes: full colours, cache reads, a small and a luma delta, runs of
\* 1, 3 and 62
DecOps ==
    { << OP_RGB, 10, 20, 30 >>, << OP_RGBA, 10, 20, 30, 40 >>, << 0 >>, << 53 >>,
      << 127 >>, << 168, 154 >>, << 192 >>, << 194 >>, << 253 >> }

\* up to MaxBody opcodes after a good header, cut anywhere
BodyInputs ==
    { RawHeader(MAGIC, w, 2, 4, 0) \o b :
        w \in 1 .. MaxWidth, b \in Prefixes({ Flatten(q) : q \in SeqsUpTo(DecOps, MaxBody) }) }

\* every first byte, with a full payload behind it
ByteInputs ==
    { RawHeader(MAGIC, 1, 1, 3, 1) \o << b, 1, 2, 3, 4 >> : b \in 0 .. 255 }

\* good and bad header fields, and the good header cut anywhere
FieldInputs ==
    { RawHeader(m, w, h, c, s) \o << 192 >> :
        m \in {MAGIC, MAGIC + 1}, w \in {0, 1, 65536}, h \in {0, 3, 65536},
        c \in {3, 4, 5}, s \in {0, 1, 2} }
    \cup Prefixes({ RawHeader(MAGIC, 1, 3, 4, 0) \o << 192 >> })

DecInputs == BodyInputs \cup ByteInputs \cup FieldInputs

InitDec ==
    /\ pc = "decode"
    /\ overflow_checks \in BOOLEAN
    /\ data \in DecInputs
    /\ header = NoHeader
    /\ src = << >>
    /\ taken = 0
    /\ px_prev = PxInit
    /\ enc_array = ArrayInit
    /\ enc_run = 0
    /\ out = << >>
    /\ enc_ops = << >>
    /\ pos = 0
    /\ result = "none"
    /\ dec_header = NoHeader
    /\ px = PxInit
    /\ dec_array = ArrayInit
    /\ total = 0
    /\ dec_run = 0
    /\ emitted = << >>
    /\ ret = "none"
    /\ nones = 0

NextDec == Decode \/ Next_px

SpecDec == InitDec /\ [][NextDec]_vars

(***************************************************************************)
(* Helpers of the properties.                                              *)
(***************************************************************************)
\* the pixel before the k-th pixel of the source
PrevOf(k) == IF k = 1 THEN PxInit ELSE src[k - 1]

\* encode has returned
Encoded == pc \in {"decode", "pull", "idle"} /\ Len(out) > 0

\* the opcode bytes of the encoder's output
Body(o) == SubSeq(o, 15, Len(o) - 8)

\* pixels the opcodes of b stand for: 1 for each opcode, low 6 bits + 1 for a run
RECURSIVE PixelsOf(_)
PixelsOf(b) ==
    IF b = << >> THEN 0
    ELSE LET op == Dispatch(Head(b))
         IN  (IF op = "run" THEN BitAnd(Head(b), 63) + 1 ELSE 1)
             + PixelsOf(SubSeq(b, 2 + Payload(op), Len(b)))

\* b is a sequence of whole opcodes
RECURSIVE WholeOps(_)
WholeOps(b) ==
    \/ b = << >>
    \/ LET op == Dispatch(Head(b))
       IN  /\ op # "malformed"
           /\ Len(b) >= 1 + Payload(op)
           /\ WholeOps(SubSeq(b, 2 + Payload(op), Len(b)))

\* the signed delta of two channels modulo 256, in -128..127
Delta8(a, b) == AsI8((a - b) % 256)

(***************************************************************************)
(* C1. Round trip: for a header with width, height > 0 and a source of      *)
(* exactly width*height pixels, encode completes, decode of its bytes       *)
(* succeeds with the same header, and the pixel sequence pulled to its end  *)
(* is the source.                                                           *)
(***************************************************************************)
C1_RoundTrip ==
    (header.width > 0 /\ header.height > 0 /\ Len(src) = TakeCount(header))
    => /\ pc # "panic"
       /\ (result # "none" => result = "Some" /\ dec_header = header)
       /\ (ret \in {"None", "Failed"} => emitted = src)

(***************************************************************************)
(* C2. decode returns a header exactly when 14 bytes are there, the first   *)
(* four are "qoif", width and height are non-zero, the channel byte is 3 or *)
(* 4 and the colorspace byte is 0 or 1; otherwise it returns failure, gives *)
(* no pixel sequence and reads no byte past the header.                     *)
(***************************************************************************)
GoodHeader(d) ==
    /\ Len(d) >= 14
    /\ SubSeq(d, 1, 4) = << 113, 111, 105, 102 >>
    /\ SubSeq(d, 5, 8) # << 0, 0, 0, 0 >>
    /\ SubSeq(d, 9, 12) # << 0, 0, 0, 0 >>
    /\ d[13] \in {3, 4}
    /\ d[14] \in {0, 1}

C2_HeaderIff ==
    result # "none"
    => /\ (result = "Some") <=> GoodHeader(data)
       /\ ~GoodHeader(data)
          => (result = "None" /\ pc = "idle" /\ emitted = << >> /\ pos <= 14)

(***************************************************************************)
(* C3. The decoder emits by count: a sequence pulled to its end without a   *)
(* short read has exactly width*height pixels, no sequence has more, and    *)
(* once remaining = 0 a pull ends the sequence and reads no byte.           *)
(***************************************************************************)
\* n = w * h and n <= w * h, for w > 0, without forming the product
ProductIs(w, h, n) == n % w = 0 /\ n \div w = h
AtMostProduct(w, h, n) == (n + w - 1) \div w <= h

C3_AtMost ==
    result = "Some" => AtMostProduct(dec_header.width, dec_header.height, Len(emitted))

C3_Exact ==
    (result = "Some" /\ ret = "None")
    => ProductIs(dec_header.width, dec_header.height, Len(emitted))

C3_Stop ==
    (pc = "pull" /\ total = 0) => (pos' = pos /\ emitted' = emitted /\ ret' = "None")

C3_ByCount == [](C3_AtMost /\ C3_Exact) /\ [][C3_Stop]_vars

(***************************************************************************)
(* C4. Alpha continuity: the encoder takes a small-diff, luma-diff or       *)
(* full-RGB opcode only for a pixel whose alpha equals its predecessor's;   *)
(* a pixel whose alpha differs and that misses the cache is written as      *)
(* full-RGBA.                                                               *)
(***************************************************************************)
C4_AlphaContinuity ==
    \A k \in 1 .. Len(enc_ops) :
        /\ enc_ops[k] \in {"diff", "luma", "rgb"} => src[k][4] = PrevOf(k)[4]
        /\ (src[k][4] # PrevOf(k)[4] /\ enc_ops[k] # "index") => enc_ops[k] = "rgba"

(***************************************************************************)
(* C5. Every consumed pixel is in the output: when encode has returned,     *)
(* the pixels its opcodes stand for (1 for each opcode, low 6 bits + 1 for  *)
(* a run) add up to the pixels consumed; a pending run is written before    *)
(* the end marker.                                                          *)
(***************************************************************************)
C5_AllPixelsWritten == Encoded => PixelsOf(Body(out)) = taken

(***************************************************************************)
(* C6. Opcode selection for a pixel that differs from its predecessor,      *)
(* misses the cache and keeps the alpha: small-diff when the three deltas   *)
(* lie in -2..1, else luma-diff when the green delta lies in -32..31 and     *)
(* r-g, b-g lie in -8..7, else full-RGB; full-RGBA only when alpha changed. *)
(***************************************************************************)
C6_Expected(p, q) ==
    LET dr == Delta8(p[1], q[1])
        dg == Delta8(p[2], q[2])
        db == Delta8(p[3], q[3])
    IN  IF dr \in -2 .. 1 /\ dg \in -2 .. 1 /\ db \in -2 .. 1 THEN "diff"
        ELSE IF dg \in -32 .. 31 /\ (dr - dg) \in -8 .. 7 /\ (db - dg) \in -8 .. 7
        THEN "luma"
        ELSE "rgb"

C6_OpcodeOrder ==
    \A k \in 1 .. Len(enc_ops) :
        /\ (src[k] # PrevOf(k) /\ enc_ops[k] # "index" /\ src[k][4] = PrevOf(k)[4])
           => enc_ops[k] = C6_Expected(src[k], PrevOf(k))
        /\ enc_ops[k] = "rgba" => src[k][4] # PrevOf(k)[4]

(***************************************************************************)
(* C7. Cache consistency: a pixel that differs from its predecessor, was    *)
(* resolved earlier by a non-run opcode, and whose slot no other pixel has  *)
(* been resolved into since, is written as the indexed opcode.              *)
(***************************************************************************)
C7_CacheConsistency ==
    \A k \in 1 .. Len(enc_ops) : \A j \in 1 .. (k - 1) :
        ( /\ src[k] # PrevOf(k)
          /\ src[j] = src[k]
          /\ enc_ops[j] \in {"index", "diff", "luma", "rgb", "rgba"}
          /\ \A m \in (j + 1) .. (k - 1) :
                (enc_ops[m] # "run" /\ Slot(src[m]) = Slot(src[k])) => src[m] = src[k] )
        => enc_ops[k] = "index"

(***************************************************************************)
(* C8. Run boundary at 62: while pixels equal their predecessor the encoder *)
(* writes nothing and counts them; at the 62nd in a row it writes the one   *)
(* run opcode 0b11_111101 (wire value 61) and the run counter is 0.         *)
(***************************************************************************)
RECURSIVE TailRuns(_)
TailRuns(ops) ==
    IF ops = << >> \/ ops[Len(ops)] # "run" THEN 0
    ELSE 1 + TailRuns(SubSeq(ops, 1, Len(ops) - 1))

C8_Step ==
    (pc = "loop" /\ taken' = taken + 1 /\ TailRuns(enc_ops') \in 1 .. 62)
    => IF TailRuns(enc_ops') = 62
       THEN out' = out \o << 253 >> /\ enc_run' = 0
       ELSE out' = out /\ enc_run' = TailRuns(enc_ops')

C8_RunBoundary == [][C8_Step]_vars

C8_Witness ==
    /\ pc = "loop"
    /\ TailRuns(enc_ops) = 62
    /\ out[Len(out)] = 253
    /\ enc_run = 0

(***************************************************************************)
(* C9. For any header and source, encode returns after at most             *)
(* width*height pixels, and its output is the 14 header bytes, whole        *)
(* opcodes the decoder recognises, and the end marker as the last 8 bytes.  *)
(***************************************************************************)
C9_ValidStream ==
    /\ ~(pc = "panic" /\ result = "none")
    /\ AtMostProduct(header.width, header.height, taken)
    /\ Encoded
       => /\ Len(out) >= 22
          /\ GoodHeader(out)
          /\ read_32(out, 4) = header.width /\ read_32(out, 8) = header.height
          /\ WholeOps(Body(out))
          /\ SubSeq(out, Len(out) - 7, Len(out)) = << 0, 0, 0, 0, 0, 0, 0, 1 >>

(***************************************************************************)
(* C10. Failures are terminal: a pull whose read comes up short (at an      *)
(* opcode byte or inside a multi-byte opcode) returns no pixel, and after   *)
(* it every pull on the sequence returns no pixel.                          *)
(***************************************************************************)
C10_ShortRead ==
    /\ pc = "pull"
    /\ total > 0
    /\ dec_run = 0
    /\ \/ pos >= Len(data)
       \/ Len(data) - (pos + 1) < Payload(Dispatch(data[pos + 1]))

C10_Step ==
    /\ C10_ShortRead => (ret' = "Failed" /\ emitted' = emitted)
    /\ ret = "Failed" => (ret' = "Failed" /\ emitted' = emitted)

C10_FailuresTerminal == [][C10_Step]_vars

C10_Witness ==
    /\ ret = "Failed"
    /\ nones >= 2
    /\ emitted # << >>
    /\ px # emitted[Len(emitted)]

(***************************************************************************)
(* C11. Header round trip and layout: for every header with width and       *)
(* height non-zero, encode writes the 14 bytes "qoif", width, height (big   *)
(* endian), channel tag 3 / 4, colorspace tag 0 / 1 before any opcode, and  *)
(* decode of the output returns the header that was encoded.                *)
(***************************************************************************)
C11_Layout(o, h) ==
    /\ Len(o) >= 14
    /\ SubSeq(o, 1, 4) = << 113, 111, 105, 102 >>
    /\ \A i \in 5 .. 12 : o[i] \in 0 .. 255
    /\ o[5] * 16777216 + o[6] * 65536 + o[7] * 256 + o[8] = h.width
    /\ o[9] * 16777216 + o[10] * 65536 + o[11] * 256 + o[12] = h.height
    /\ o[13] = (IF h.channels = "RGB" THEN 3 ELSE 4)
    /\ o[14] = (IF h.colorspace = "SRGB" THEN 0 ELSE 1)

C11_HeaderRoundTrip ==
    (header.width > 0 /\ header.height > 0)
    => /\ pc # "encode" => C11_Layout(out, header)
       /\ (pc = "loop" /\ taken = 0) => Len(out) = 14
       /\ result # "none" => (result = "Some" /\ dec_header = header)

(***************************************************************************)
(* C12. Cache lockstep: when the decoder runs on the encoder's output and   *)
(* has emitted the first k pixels, for a k after which the encoder had no   *)
(* pending run, the decoder's cache equals, slot for slot, the encoder's    *)
(* cache after its first k pixels.                                          *)
(***************************************************************************)
\* the encoder's cache and run after the first k pixels of the source
RECURSIVE EncAfter(_)
EncAfter(k) ==
    IF k = 0 THEN [array |-> ArrayInit, run |-> 0]
    ELSE LET s == EncAfter(k - 1)
             r == EncodeStep(src[k], PrevOf(k), s.array, s.run, overflow_checks)
         IN  [array |-> r.array, run |-> r.run]

C12_CacheLockstep ==
    ( /\ pc = "pull"
      /\ Encoded
      /\ Len(emitted) <= taken
      /\ emitted = SubSeq(src, 1, Len(emitted))
      /\ dec_run = 0
      /\ EncAfter(Len(emitted)).run = 0 )
    => dec_array = EncAfter(Len(emitted)).array

(***************************************************************************)
(* C13. Decoding a run opcode leaves the cache unchanged: neither the pull  *)
(* that reads the run opcode and emits its first pixel nor the pulls that   *)
(* repeat it write a cache slot.                                            *)
(***************************************************************************)
C13_ReadsRun ==
    /\ pc = "pull"
    /\ total > 0
    /\ dec_run = 0
    /\ pos < Len(data)
    /\ data[pos + 1] \in 192 .. 253

C13_InRun == pc = "pull" /\ total > 0 /\ dec_run > 0

C13_Step == (C13_ReadsRun \/ C13_InRun) => dec_array' = dec_array

C13_RunKeepsCache == [][C13_Step]_vars

(***************************************************************************)
(* C14. Decoder run semantics: a run opcode with low six bits n, read when  *)
(* at least n+1 pixels remain, makes the next n+1 pulls return the current  *)
(* pixel unchanged; the opcode pull consumes one byte and the n repeats     *)
(* none; every one of them takes one off the remaining count; after the     *)
(* last the run counter is 0 again.                                         *)
(***************************************************************************)
\* the last n pixels handed out all equal p
LastAre(n, p) ==
    /\ Len(emitted) >= n
    /\ \A j \in (Len(emitted) - n + 1) .. Len(emitted) : emitted[j] = p

\* between two pulls of a run: the byte just consumed is the run opcode, and
\* the pixels of the run handed out so far are the current pixel
C14_InRun ==
    (pc = "pull" /\ dec_run > 0)
    => /\ pos >= 15
       /\ data[pos] \in 192 .. 253
       /\ dec_run <= data[pos] - 192
       /\ LastAre(data[pos] - 192 - dec_run + 1, px)

C14_Open ==
    (C13_ReadsRun /\ total >= data[pos + 1] - 192 + 1)
    => /\ ret' = "Some"
       /\ px' = px
       /\ emitted' = Append(emitted, px)
       /\ pos' = pos + 1
       /\ total' = total - 1
       /\ dec_run' = data[pos + 1] - 192

C14_Repeat ==
    C13_InRun
    => /\ ret' = "Some"
       /\ px' = px
       /\ emitted' = Append(emitted, px)
       /\ pos' = pos
       /\ total' = total - 1
       /\ dec_run' = dec_run - 1
       /\ dec_run = 1 => /\ Len(emitted') >= data[pos] - 192 + 1
                         /\ \A j \in (Len(emitted') - (data[pos] - 192)) .. Len(emitted') :
                               emitted'[j] = px'

C14_RunSemantics == [](C14_InRun) /\ [][C14_Open /\ C14_Repeat]_vars

C14_Witness ==
    /\ pc = "pull"
    /\ Len(data) = 19
    /\ data[15] = 254
    /\ data[19] = 194
    /\ pos = 19
    /\ dec_run = 0
    /\ total = 0
    /\ emitted = << << 10, 20, 30, 255 >>, << 10, 20, 30, 255 >>,
                    << 10, 20, 30, 255 >>, << 10, 20, 30, 255 >> >>

(***************************************************************************)
(* C15. The opcode dispatch is total and unambiguous: every byte value      *)
(* selects exactly one of the six opcode cases, 0xFE and 0xFF being the     *)
(* full-RGB and full-RGBA opcodes and never runs, so a pull that has all    *)
(* the bytes of its opcode never fails.                                     *)
(***************************************************************************)
\* the payload length each first byte calls for, by value ranges
C15_PayloadOf(b) ==
    IF b = 254 THEN 3
    ELSE IF b = 255 THEN 4
    ELSE IF b \in 128 .. 191 THEN 1
    ELSE 0

C15_ReadsOpcode == pc = "pull" /\ total > 0 /\ dec_run = 0 /\ pos < Len(data)

C15_Step ==
    C15_ReadsOpcode
    => LET b == data[pos + 1]
           n == C15_PayloadOf(b)
       IN  /\ Dispatch(b) \in {"rgb", "rgba", "index", "diff", "luma", "run"}
           /\ IF pos + 1 + n <= Len(data)
              THEN /\ ret' = "Some"
                   /\ pos' = pos + 1 + n
                   /\ dec_run' = (IF b \in 192 .. 253 THEN b - 192 ELSE 0)
                   /\ b = 254 => px' = << data[pos + 2], data[pos + 3], data[pos + 4], px[4] >>
                   /\ b = 255 => px' = << data[pos + 2], data[pos + 3], data[pos + 4], data[pos + 5] >>
                   /\ b \in 0 .. 63 => px' = dec_array[b]
                   /\ b \in 64 .. 191 => px'[4] = px[4]
                   /\ b \in 192 .. 253 => px' = px
              ELSE ret' = "Failed"

C15_DispatchTotal == [][C15_Step]_vars

C15_Witness ==
    /\ pc = "pull"
    /\ Len(data) = 19
    /\ data[15] = 255
    /\ pos = 19
    /\ ret = "Some"
    /\ dec_run = 0
    /\ emitted = << << 1, 2, 3, 4 >> >>

(***************************************************************************)
(* C16. For every header decode accepts (magic, non-zero width and height, *)
(* valid tags) decode returns the iterator, and its remaining-pixel count   *)
(* starts at the exact product width * height, the number of pixels the     *)
(* encoder takes for that header, with no overflow or wraparound.           *)
(***************************************************************************)
C16_ExactTotal ==
    (result # "none" /\ GoodHeader(data))
    => /\ result = "Some"
       /\ ret = "none" => ProductIs(dec_header.width, dec_header.height, total)

(***************************************************************************)
(* C17. Delta wraparound: the encoder's channel differences are computed    *)
(* with no arithmetic overflow for every pair of pixels, and whenever the   *)
(* encoder writes a small-diff or luma-diff opcode, the decoder's wrapping  *)
(* addition of the decoded differences to the previous pixel gives the      *)
(* current pixel's r, g and b.                                              *)
(***************************************************************************)
\* the pixel the decoder resolves from the opcode written for pixel k
C17_Decoded(k) ==
    LET bytes == DeltaBytes(src[k], Deltas(src[k], PrevOf(k)))
    IN  IF enc_ops[k] = "diff" THEN DiffPixel(PrevOf(k), bytes[1])
        ELSE LumaPixel(PrevOf(k), bytes[1], bytes[2])

C17_DeltaWraparound ==
    \A k \in 1 .. Len(enc_ops) :
        /\ enc_ops[k] # "panic"
        /\ enc_ops[k] \in {"diff", "luma"}
           => SubSeq(C17_Decoded(k), 1, 3) = SubSeq(src[k], 1, 3)

(***************************************************************************)
(* C18. Run boundary at 63: when 63 consecutive pixels each equal their     *)
(* predecessor, the first 62 are written as one run opcode of wire value    *)
(* 61.  As stated, the 63rd is then resolved with a non-run opcode          *)
(* (C18_NonRunOpcode); in the code the 63rd is counted as the first pixel   *)
(* of a new pending run, and nothing is written for it (C18_NewRun).        *)
(***************************************************************************)
\* the number of consecutive source pixels, ending with pixel k, that each
\* equal their predecessor
RECURSIVE Streak(_)
Streak(k) ==
    IF k = 0 \/ src[k] # PrevOf(k) THEN 0 ELSE 1 + Streak(k - 1)

\* the step that takes the 63rd pixel of such a sequence
C18_Takes63rd == pc = "loop" /\ taken' = taken + 1 /\ Streak(taken') = 63

C18_OriginalStep ==
    C18_Takes63rd
    => /\ out[Len(out)] = 253
       /\ enc_ops'[taken'] # "run"
       /\ Len(out') > Len(out)
       /\ enc_run' = 0
       /\ enc_array[Slot(src[taken'])] = src[taken'] => enc_ops'[taken'] = "index"

C18_NonRunOpcode == [][C18_OriginalStep]_vars

C18_AmendedStep ==
    C18_Takes63rd
    => /\ out[Len(out)] = 253
       /\ enc_run = 0
       /\ out' = out
       /\ enc_run' = 1
       /\ enc_array' = enc_array

C18_NewRun == [][C18_AmendedStep]_vars

C18_Witness ==
    /\ pc = "loop"
    /\ taken >= 63
    /\ Streak(taken) = 63
    /\ enc_run = 1
    /\ out[Len(out)] = 253

(***************************************************************************)
(* C19. The encoder's run counter is in 0..61 at every pixel boundary, and  *)
(* every run opcode it writes is 0b11 followed by run - 1 for a run of      *)
(* 1..62 pixels, so its low six bits are in 0..61 and the byte is neither   *)
(* 0xFE nor 0xFF.                                                           *)
(***************************************************************************)
C19_Counter == enc_run \in 0 .. 61

\* a step that takes a pixel with the pending run enc_run: a pixel equal to
\* its predecessor writes nothing or the one byte of a full run, any other
\* pixel first writes the pending run, if there is one
C19_Step ==
    (pc = "loop" /\ taken' = taken + 1)
    => LET p == src[taken']
           written == SubSeq(out', Len(out) + 1, Len(out'))
       IN  /\ SubSeq(out', 1, Len(out)) = out
           /\ p = PrevOf(taken')
              => \/ written = << >> /\ enc_run' = enc_run + 1
                 \/ written = << 192 + enc_run >> /\ enc_run = 61 /\ enc_run' = 0
           /\ (p # PrevOf(taken') /\ enc_run > 0)
              => /\ Len(written) >= 1
                 /\ written[1] = 192 + enc_run - 1
                 /\ written[1] \in 192 .. 253
                 /\ enc_run' = 0

C19_RunCounterRange == [](C19_Counter) /\ [][C19_Step]_vars

C19_Witness ==
    /\ pc = "loop"
    /\ taken >= 62
    /\ src[taken] # PrevOf(taken)
    /\ Streak(taken - 1) = 61
    /\ enc_run = 0
    /\ \E i \in 15 .. Len(out) : out[i] = 252

(***************************************************************************)
(* C20. Cache slot invariant.  Encoder calls and decoder calls on arbitrary *)
(* bytes are taken together: a behaviour starts with either.                *)
(***************************************************************************)
SpecAll == (Init \/ InitDec) /\ [][Next]_vars

\* the slot of a pixel, from the channel values
C20_SlotOf(p) == (p[1] * 3 + p[2] * 5 + p[3] * 7 + p[4] * 11) % 64

C20_SlotsOk(array) ==
    \A i \in 0 .. 63 : array[i] = << 0, 0, 0, 0 >> \/ C20_SlotOf(array[i]) = i

C20_Stores(old, new) ==
    \A i \in 0 .. 63 : new[i] # old[i] => C20_SlotOf(new[i]) = i

(***************************************************************************)
(* C20. In every reachable state of the encoder and of the decoder, each    *)
(* cache slot i holds the initial pixel (0,0,0,0) or a pixel whose hash     *)
(* modulo 64 is i, and no step stores a pixel in a slot other than the one  *)
(* of its hash.                                                             *)
(***************************************************************************)
C20_CacheSlots ==
    /\ [](C20_SlotsOk(enc_array) /\ C20_SlotsOk(dec_array))
    /\ [][C20_Stores(enc_array, enc_array') /\ C20_Stores(dec_array, dec_array')]_vars

C20_Witness ==
    /\ pc = "pull"
    /\ enc_array[4] = << 1, 1, 1, 255 >>
    /\ dec_array[4] = << 1, 1, 1, 255 >>
    /\ dec_array[53] = << 0, 0, 0, 255 >>

====
